---- MODULE Spec2Model ----
(***************************************************************************)
(* ncache: an in-memory key/value store (src/ncache.py).                   *)
(*                                                                         *)
(* The two module-level dicts cache_values and cache_timeouts are          *)
(* functions whose DOMAIN is the set of keys stored.  A timeout            *)
(* descriptor is the tuple the code stores: <<"ttl", expires_at>> or       *)
(* <<"perm", created_at>>.  datetime values are integers (seconds);        *)
(* datetime.now() is the variable now, which never decreases.              *)
(*                                                                         *)
(* Every action records the call in op and the dicts it found in           *)
(* pre_values / pre_timeouts, so that what a call did is a state predicate. *)
(* manage_memory runs one loop iteration per step (mm is its frame): its    *)
(* loops need not end.                                                      *)
(*                                                                         *)
(* An optional argument (ttl=None) is a sequence of length 0 or 1.         *)
(* An argument of _clear_ttl_keys carries its Python type, because the     *)
(* code compares it with a datetime: <<"datetime", t>> or <<"int", n>>.    *)
(***************************************************************************)
EXTENDS Integers, Sequences, FiniteSets, TLC

VARIABLES cache_values, cache_timeouts, now, op, pre_values, pre_timeouts, mm, conn

vars == <<cache_values, cache_timeouts, now, op, pre_values, pre_timeouts, mm, conn>>

(* ------------------------------ bounds -------------------------------- *)

\* The clock runs over 0..MaxTime.
MaxTime == 2
\* TTL=<n> with n in 0..MaxTtl.
MaxTtl == 1
\* chunk_size in 0..MaxChunk.
MaxChunk == 2
\* step_seconds in 1..MaxStepSeconds.
MaxStepSeconds == 2
\* A command line has up to MaxTokens space-separated tokens.
MaxTokens == 4
\* The serving loop is followed for MaxReads non-empty reads.
MaxReads == 3
\* byte limit in 0..MaxLimit.
MaxLimit == 6
\* manage_memory's this_step is followed up to MaxThisStep.
MaxThisStep == 4

Keys == {"k1", "k2"}
Values == {"a", "b"}

Times == 0..MaxTime
\* ttl=None is <<>>, ttl=n is <<n>>.
TtlArgs == {<<>>} \cup {<<n>> : n \in 0..MaxTtl}
\* The datetimes a caller hands to _clear_ttl_keys.
Futures == 0..(MaxTime + MaxTtl + 1)
Chunks == 0..MaxChunk
StepSeconds == 1..MaxStepSeconds
Limits == 0..MaxLimit

(* ------------------------------ dicts --------------------------------- *)

EmptyDict == [x \in {} |-> 0]

\* d.pop(key, None)
Pop(d, key) == [x \in (DOMAIN d) \ {key} |-> d[x]]

\* d[key] = v
Put(d, key, v) == [x \in (DOMAIN d) \cup {key} |-> IF x = key THEN v ELSE d[x]]

\* d with every key of ks popped.
PopAll(d, ks) == [x \in (DOMAIN d) \ ks |-> d[x]]

\* sys.getsizeof of a dict, as the footprint manage_memory takes it to be (its
\* comment at line 176: an unchanged size means that no key was removed): a
\* fixed overhead plus one unit per key, so that it grows with every key
\* stored and shrinks with every key removed.  The interpreter's own figure
\* moves in coarser steps; the states and loops below are stated in terms of
\* this footprint.
getsizeof(d) == 1 + Cardinality(DOMAIN d)

\* current_cache_size = lambda : getsizeof(cache_values) + getsizeof(cache_timeouts)
current_cache_size(values, timeouts) == getsizeof(values) + getsizeof(timeouts)

\* Footprint of the two dicts when both are empty.
EmptySize == current_cache_size(EmptyDict, EmptyDict)

Stores(values, timeouts) == [values |-> values, timeouts |-> timeouts]

(* ------------------------- _get_or_timeout ---------------------------- *)

\* Mutant: the expiry of a ttl key is never looked at.
LookupValue_NoExpiry(values, timeouts, key, t) ==
    IF key \in DOMAIN timeouts /\ key \in DOMAIN values
    THEN <<values[key]>> ELSE <<>>

\* Mutant: expires_at >= now counts as alive.
LookupValue_NonStrict(values, timeouts, key, t) ==
    IF key \in DOMAIN timeouts
    THEN IF timeouts[key][1] = "ttl"
         THEN IF timeouts[key][2] >= t /\ key \in DOMAIN values
              THEN <<values[key]>> ELSE <<>>
         ELSE IF key \in DOMAIN values THEN <<values[key]>> ELSE <<>>
    ELSE <<>>

\* Lines 45-54: the value the lookup found, as a sequence (<<>> is None).
LookupValue(values, timeouts, key, t) ==
    IF key \in DOMAIN timeouts
    THEN IF timeouts[key][1] = "ttl"
         THEN IF timeouts[key][2] > t /\ key \in DOMAIN values
              THEN <<values[key]>> ELSE <<>>
         ELSE IF key \in DOMAIN values THEN <<values[key]>> ELSE <<>>
    ELSE <<>>

\* Mutant: a miss clears cache_timeouts and forgets cache_values.
get_or_timeout_HalfPurge(values, timeouts, key, t) ==
    IF key \in DOMAIN timeouts /\ key \in DOMAIN values
       /\ (timeouts[key][1] = "ttl" => timeouts[key][2] > t)
    THEN [result |-> values[key], found |-> TRUE,
          values |-> values, timeouts |-> timeouts]
    ELSE [result |-> "NOT FOUND", found |-> FALSE,
          values |-> values, timeouts |-> Pop(timeouts, key)]

\* Mutant: a hit reads the value with pop instead of get.
get_or_timeout_PopOnHit(values, timeouts, key, t) ==
    IF key \in DOMAIN timeouts /\ key \in DOMAIN values
       /\ (timeouts[key][1] = "ttl" => timeouts[key][2] > t)
    THEN [result |-> values[key], found |-> TRUE,
          values |-> Pop(values, key), timeouts |-> timeouts]
    ELSE [result |-> "NOT FOUND", found |-> FALSE,
          values |-> Pop(values, key), timeouts |-> Pop(timeouts, key)]

\* Lines 45-60: the result and the stores the call leaves.
get_or_timeout(values, timeouts, key, t) ==
    LET value == LookupValue(values, timeouts, key, t) IN
    IF value = <<>>
    THEN [result |-> "NOT FOUND", found |-> FALSE,
          values |-> Pop(values, key), timeouts |-> Pop(timeouts, key)]
    ELSE [result |-> value[1], found |-> TRUE,
          values |-> values, timeouts |-> timeouts]

(* ------------------------------ _set_key ------------------------------ *)

\* Lines 95-98: the descriptor _set_key stores.
Descriptor(ttl, t) ==
    IF ttl # <<>> THEN <<"ttl", t + ttl[1]>> ELSE <<"perm", t>>

\* Mutant: a key already stored keeps its descriptor.
set_key_KeepDescriptor(values, timeouts, key, value, ttl, t) ==
    Stores(Put(values, key, value),
           IF key \in DOMAIN timeouts THEN timeouts
           ELSE Put(timeouts, key, Descriptor(ttl, t)))

\* Lines 95-99.
set_key(values, timeouts, key, value, ttl, t) ==
    Stores(Put(values, key, value), Put(timeouts, key, Descriptor(ttl, t)))

(* --------------------------- _clear_perm_keys ------------------------- *)

PermKeys(timeouts) == {k \in DOMAIN timeouts : timeouts[k][1] = "perm"}

TtlKeys(timeouts) == {k \in DOMAIN timeouts : timeouts[k][1] = "ttl"}

Range(s) == {s[i] : i \in 1..Len(s)}

Min(a, b) == IF a < b THEN a ELSE b

\* Mutant: the list is built without the filter val[0] == 'perm'.
SortedPermKeys_AllKeys(timeouts) ==
    LET ks == DOMAIN timeouts
        n == Cardinality(ks)
    IN {s \in [1..n -> ks] :
          /\ \A i, j \in 1..n : i # j => s[i] # s[j]
          /\ \A i, j \in 1..n : i < j => timeouts[s[i]][2] <= timeouts[s[j]][2]}

\* Mutant: sorted(..., reverse=True), the newest first.
SortedPermKeys_Reverse(timeouts) ==
    LET ks == PermKeys(timeouts)
        n == Cardinality(ks)
    IN {s \in [1..n -> ks] :
          /\ \A i, j \in 1..n : i # j => s[i] # s[j]
          /\ \A i, j \in 1..n : i < j => timeouts[s[i]][2] >= timeouts[s[j]][2]}

\* Lines 68-69: the lists sorted(keys, key=created) can return.  sorted is
\* stable and the list comes from a dict's iteration order, so keys with the
\* same created time may come in any order.
SortedPermKeys(timeouts) ==
    LET ks == PermKeys(timeouts)
        n == Cardinality(ks)
    IN {s \in [1..n -> ks] :
          /\ \A i, j \in 1..n : i # j => s[i] # s[j]
          /\ \A i, j \in 1..n : i < j => timeouts[s[i]][2] <= timeouts[s[j]][2]}

\* Line 70: keys[:chunk_size], chunk_size >= 0.
Slice(s, chunk_size) == SubSeq(s, 1, Min(chunk_size, Len(s)))

\* Lines 68-73: the stores a call can leave.
clear_perm_keys(values, timeouts, chunk_size) ==
    {Stores(PopAll(values, Range(Slice(s, chunk_size))),
            PopAll(timeouts, Range(Slice(s, chunk_size))))
       : s \in SortedPermKeys(timeouts)}

(* --------------------------- _clear_ttl_keys -------------------------- *)

\* Line 83: expiry < future.  Ordering a datetime against an int raises
\* TypeError.
CompareRaises(future) == future[1] # "datetime"

\* Mutant: the sweep pops cache_timeouts only.
clear_ttl_keys_TimeoutsOnly(values, timeouts, future) ==
    LET gone == {k \in TtlKeys(timeouts) : timeouts[k][2] < future[2]} IN
    [raised |-> FALSE, values |-> values, timeouts |-> PopAll(timeouts, gone)]

\* Mutant: expiry <= future.
clear_ttl_keys_NonStrict(values, timeouts, future) ==
    IF CompareRaises(future) /\ TtlKeys(timeouts) # {}
    THEN [raised |-> TRUE, values |-> values, timeouts |-> timeouts]
    ELSE LET gone == {k \in TtlKeys(timeouts) : timeouts[k][2] <= future[2]} IN
         [raised |-> FALSE, values |-> PopAll(values, gone),
          timeouts |-> PopAll(timeouts, gone)]

\* Lines 81-85.  The comparison of the first ttl key raises before any pop.
clear_ttl_keys(values, timeouts, future) ==
    IF CompareRaises(future) /\ TtlKeys(timeouts) # {}
    THEN [raised |-> TRUE, values |-> values, timeouts |-> timeouts]
    ELSE LET gone == {k \in TtlKeys(timeouts) : timeouts[k][2] < future[2]} IN
         [raised |-> FALSE, values |-> PopAll(values, gone),
          timeouts |-> PopAll(timeouts, gone)]

(* ---------------------------- parse_command --------------------------- *)

\* A Python str is the sequence of its characters, each a one-character
\* string: "GET k" is <<"G", "E", "T", " ", "k">>.
UpperLetters == <<"A", "B", "C", "D", "E", "F", "G", "H", "I", "J", "K", "L", "M",
                  "N", "O", "P", "Q", "R", "S", "T", "U", "V", "W", "X", "Y", "Z">>
LowerLetters == <<"a", "b", "c", "d", "e", "f", "g", "h", "i", "j", "k", "l", "m",
                  "n", "o", "p", "q", "r", "s", "t", "u", "v", "w", "x", "y", "z">>
Digits == <<"0", "1", "2", "3", "4", "5", "6", "7", "8", "9">>

\* The literals of the code.
NOT_FOUND == <<"N", "O", "T", " ", "F", "O", "U", "N", "D">>
SUCCESS == <<"S", "U", "C", "C", "E", "S", "S">>
Quote == "\""

\* str.lower()
LowerChar(c) ==
    IF \E i \in 1..Len(UpperLetters) : UpperLetters[i] = c
    THEN LowerLetters[CHOOSE i \in 1..Len(UpperLetters) : UpperLetters[i] = c]
    ELSE c

lower(str) == [i \in 1..Len(str) |-> LowerChar(str[i])]

\* str.lstrip(' ') and str.rstrip(' ')
RECURSIVE lstrip(_)
lstrip(str) ==
    IF str # <<>> /\ str[1] = " " THEN lstrip(Tail(str)) ELSE str

RECURSIVE rstrip(_)
rstrip(str) ==
    IF str # <<>> /\ str[Len(str)] = " "
    THEN rstrip(SubSeq(str, 1, Len(str) - 1)) ELSE str

\* str.split(' '): cut at every single space; ''.split(' ') is [''].
RECURSIVE split(_)
split(str) ==
    IF \E i \in 1..Len(str) : str[i] = " "
    THEN LET i == CHOOSE i \in 1..Len(str) :
                    /\ str[i] = " "
                    /\ \A j \in 1..(i - 1) : str[j] # " "
         IN <<SubSeq(str, 1, i - 1)>> \o split(SubSeq(str, i + 1, Len(str)))
    ELSE <<str>>

\* ' '.join(list)
RECURSIVE join(_)
join(list) ==
    IF list = <<>> THEN <<>>
    ELSE IF Len(list) = 1 THEN list[1]
    ELSE list[1] \o <<" ">> \o join(Tail(list))

\* str.startswith(prefix)
startswith(str, prefix) ==
    /\ Len(str) >= Len(prefix)
    /\ SubSeq(str, 1, Len(prefix)) = prefix

\* str.isdigit(): not empty and digits only.
isdigit(str) ==
    /\ str # <<>>
    /\ \A i \in 1..Len(str) : \E d \in 1..Len(Digits) : Digits[d] = str[i]

\* int(str) of a string of digits.
RECURSIVE int(_)
int(str) ==
    IF str = <<>> THEN 0
    ELSE 10 * int(SubSeq(str, 1, Len(str) - 1))
         + ((CHOOSE d \in 1..Len(Digits) : Digits[d] = str[Len(str)]) - 1)

\* Line 137: the last token is ttl=<digits>, in any letter case.
IsTtlToken(token) ==
    /\ startswith(lower(token), <<"t", "t", "l", "=">>)
    /\ isdigit(SubSeq(lower(token), 5, Len(token)))

\* Lines 138 and 141: command[2] after the ttl is parsed out.
RawValue(command) ==
    IF IsTtlToken(command[Len(command)])
    THEN join(SubSeq(command, 3, Len(command) - 1))
    ELSE join(SubSeq(command, 3, Len(command)))

\* Lines 139 and 142: the ttl, as an optional int.
ParsedTtl(command) ==
    IF IsTtlToken(command[Len(command)])
    THEN <<int(SubSeq(lower(command[Len(command)]), 5, Len(command[Len(command)])))>>
    ELSE <<>>

\* Mutant: quotes are removed only from a value of two characters or more.
Unquote_Balanced(raw) ==
    IF Len(raw) >= 2 /\ raw[1] = Quote /\ raw[Len(raw)] = Quote
    THEN SubSeq(raw, 2, Len(raw) - 1) ELSE raw

\* Lines 145-146: the encapsulating quotes are removed.
Unquote(raw) ==
    IF raw[1] = Quote /\ raw[Len(raw)] = Quote
    THEN SubSeq(raw, 2, Len(raw) - 1) ELSE raw

\* What a call of parse_command comes to: a return with a response, or an
\* exception; for a ValueError, which of the three messages it carries and
\* the number it is formatted with.
Outcome(kind, response, error, received, values, timeouts) ==
    [kind |-> kind, response |-> response, error |-> error,
     received |-> received, values |-> values, timeouts |-> timeouts]

\* Mutant: the verb is compared as typed.
IsVerb_CaseSensitive(command, verb) == command[1] = verb

\* Lines 126 and 132: command[0].lower() == verb
IsVerb(command, verb) == lower(command[1]) = verb

\* Mutant: GET takes two tokens or more.
GetArgsOk_AtLeast(command) == Len(command) >= 2

\* Line 127: len(command) == 2
GetArgsOk(command) == Len(command) = 2

\* Line 134: len(command) > 2
SetArgsOk(command) == Len(command) > 2

\* Mutant: GET looks its key up before it counts its tokens.
parse_command_LookupFirst(values, timeouts, data, t) ==
    LET command == split(rstrip(lstrip(data))) IN
    IF IsVerb(command, <<"g", "e", "t">>)
    THEN IF GetArgsOk(command)
         THEN LET r == get_or_timeout(values, timeouts, command[2], t) IN
              Outcome("return", IF r.found THEN r.result ELSE NOT_FOUND,
                      "", 0, r.values, r.timeouts)
         ELSE IF Len(command) > 2
         THEN LET r == get_or_timeout(values, timeouts, command[2], t) IN
              Outcome("ValueError", <<>>, "Wrong number of args for GET",
                      Len(command), r.values, r.timeouts)
         ELSE Outcome("ValueError", <<>>, "Wrong number of args for GET",
                      Len(command), values, timeouts)
    ELSE IF IsVerb(command, <<"s", "e", "t">>)
    THEN IF SetArgsOk(command)
         THEN IF RawValue(command) = <<>>
              THEN Outcome("IndexError", <<>>, "", 0, values, timeouts)
              ELSE LET r == set_key(values, timeouts, command[2],
                                    Unquote(RawValue(command)),
                                    ParsedTtl(command), t)
                   IN Outcome("return", SUCCESS, "", 0, r.values, r.timeouts)
         ELSE Outcome("ValueError", <<>>, "Wrong number of args for SET",
                      Len(command), values, timeouts)
    ELSE Outcome("ValueError", <<>>, "Unkown command. Not GET or SET",
                 0, values, timeouts)

\* Lines 123-153.  An empty command[2] makes command[2][0] raise IndexError
\* (line 145), before _set_key is reached.
parse_command(values, timeouts, data, t) ==
    LET command == split(rstrip(lstrip(data))) IN
    IF IsVerb(command, <<"g", "e", "t">>)
    THEN IF GetArgsOk(command)
         THEN LET r == get_or_timeout(values, timeouts, command[2], t) IN
              Outcome("return", IF r.found THEN r.result ELSE NOT_FOUND,
                      "", 0, r.values, r.timeouts)
         ELSE Outcome("ValueError", <<>>, "Wrong number of args for GET",
                      Len(command), values, timeouts)
    ELSE IF IsVerb(command, <<"s", "e", "t">>)
    THEN IF SetArgsOk(command)
         THEN IF RawValue(command) = <<>>
              THEN Outcome("IndexError", <<>>, "", 0, values, timeouts)
              ELSE LET r == set_key(values, timeouts, command[2],
                                    Unquote(RawValue(command)),
                                    ParsedTtl(command), t)
                   IN Outcome("return", SUCCESS, "", 0, r.values, r.timeouts)
         ELSE Outcome("ValueError", <<>>, "Wrong number of args for SET",
                      Len(command), values, timeouts)
    ELSE Outcome("ValueError", <<>>, "Unkown command. Not GET or SET",
                 0, values, timeouts)

\* str(e) of a ValueError of parse_command: every message starts 'ERROR: '.
ErrorText(outcome) ==
    [prefix |-> "ERROR: ", message |-> outcome.error, received |-> outcome.received]

(* ------------------------------ actions ------------------------------- *)

\* manage_memory's frame: where it stands, its arguments and its locals.
MMIdle == [pc |-> "idle", chunk |-> 0, step |-> 0, limit |-> 0,
           old |-> 0, this_step |-> 0]

\* op records the last call or loop iteration: its name, its arguments, its
\* result, and manage_memory's frame as the step found it.
NoOp == [name |-> "init", key |-> "", value |-> "", ttl |-> <<>>,
         arg |-> 0, result |-> "", frame |-> MMIdle]

\* run_ncache has not been called: the functions are called directly.
NoConn == [state |-> "none", pc |-> "recv", data |-> <<>>, reads |-> 0, sent |-> 0,
           failed |-> FALSE, response |-> <<>>, after_error |-> FALSE,
           raised |-> "", chunk |-> 0, step |-> 0, limit |-> 0]

Snapshot ==
    /\ pre_values' = cache_values
    /\ pre_timeouts' = cache_timeouts

\* Mutant: a timer drops the entries whose expiry has passed.
Tick_Reaper ==
    /\ now < MaxTime
    /\ now' = now + 1
    /\ op' = [NoOp EXCEPT !.name = "tick"]
    /\ Snapshot
    /\ LET dead == {k \in TtlKeys(cache_timeouts) : cache_timeouts[k][2] < now + 1} IN
         /\ cache_values' = PopAll(cache_values, dead)
         /\ cache_timeouts' = PopAll(cache_timeouts, dead)
    /\ UNCHANGED <<mm, conn>>

\* datetime.now() moves on between two calls.
Tick ==
    /\ now < MaxTime
    /\ now' = now + 1
    /\ op' = [NoOp EXCEPT !.name = "tick"]
    /\ Snapshot
    /\ UNCHANGED <<cache_values, cache_timeouts, mm>>
    /\ UNCHANGED conn

\* _set_key(key, value, ttl)
SetKey(key, value, ttl) ==
    /\ mm.pc = "idle"
    /\ LET r == set_key(cache_values, cache_timeouts, key, value, ttl, now) IN
         /\ cache_values' = r.values
         /\ cache_timeouts' = r.timeouts
    /\ op' = [NoOp EXCEPT !.name = "set", !.key = key, !.value = value,
                          !.ttl = ttl, !.result = "SUCCESS"]
    /\ Snapshot
    /\ UNCHANGED <<now, mm>>
    /\ UNCHANGED conn

\* _get_or_timeout(key)
Get(key) ==
    /\ mm.pc = "idle"
    /\ LET r == get_or_timeout(cache_values, cache_timeouts, key, now) IN
         /\ cache_values' = r.values
         /\ cache_timeouts' = r.timeouts
         /\ op' = [NoOp EXCEPT !.name = "get", !.key = key, !.result = r.result]
    /\ Snapshot
    /\ UNCHANGED <<now, mm>>
    /\ UNCHANGED conn

\* _clear_perm_keys(chunk_size)
ClearPerm(chunk_size) ==
    /\ mm.pc = "idle"
    /\ \E r \in clear_perm_keys(cache_values, cache_timeouts, chunk_size) :
         /\ cache_values' = r.values
         /\ cache_timeouts' = r.timeouts
    /\ op' = [NoOp EXCEPT !.name = "clear_perm", !.arg = chunk_size]
    /\ Snapshot
    /\ UNCHANGED <<now, mm>>
    /\ UNCHANGED conn

\* _clear_ttl_keys(future), future a datetime
ClearTtl(future) ==
    /\ mm.pc = "idle"
    /\ LET r == clear_ttl_keys(cache_values, cache_timeouts, <<"datetime", future>>) IN
         /\ cache_values' = r.values
         /\ cache_timeouts' = r.timeouts
    /\ op' = [NoOp EXCEPT !.name = "clear_ttl", !.arg = future]
    /\ Snapshot
    /\ UNCHANGED <<now, mm>>
    /\ UNCHANGED conn

\* manage_memory(chunk_size, step_seconds, limit), lines 167-168.
MMStart(chunk_size, step_seconds, limit) ==
    /\ mm.pc = "idle"
    /\ mm' = [pc |-> "outer", chunk |-> chunk_size, step |-> step_seconds,
              limit |-> limit,
              old |-> current_cache_size(cache_values, cache_timeouts),
              this_step |-> step_seconds]
    /\ op' = [NoOp EXCEPT !.name = "mm_start", !.arg = limit]
    /\ Snapshot
    /\ UNCHANGED <<cache_values, cache_timeouts, now>>
    /\ UNCHANGED conn

\* Mutant: the outer loop runs its body without testing the size.
MMPass_Unguarded ==
    /\ mm.pc = "outer"
    /\ \E r \in clear_perm_keys(cache_values, cache_timeouts, mm.chunk) :
         /\ cache_values' = r.values
         /\ cache_timeouts' = r.timeouts
         /\ mm' = [mm EXCEPT !.pc =
                     IF current_cache_size(r.values, r.timeouts) = mm.old
                     THEN "inner" ELSE "outer"]
    /\ op' = [NoOp EXCEPT !.name = "mm_pass", !.arg = mm.chunk, !.frame = mm]
    /\ Snapshot
    /\ UNCHANGED <<now, conn>>

\* Lines 171-177: one pass of the outer loop.
MMPass ==
    /\ mm.pc = "outer"
    /\ current_cache_size(cache_values, cache_timeouts) > mm.limit
    /\ \E r \in clear_perm_keys(cache_values, cache_timeouts, mm.chunk) :
         /\ cache_values' = r.values
         /\ cache_timeouts' = r.timeouts
         /\ mm' = [mm EXCEPT !.pc =
                     IF current_cache_size(r.values, r.timeouts) = mm.old
                     THEN "inner" ELSE "outer"]
    /\ op' = [NoOp EXCEPT !.name = "mm_pass", !.arg = mm.chunk, !.frame = mm]
    /\ Snapshot
    /\ UNCHANGED now
    /\ UNCHANGED conn

\* Lines 179-183: one sweep of the inner loop; _clear_ttl_keys gets the int
\* this_step.  A TypeError leaves manage_memory.
MMSweep ==
    /\ mm.pc = "inner"
    /\ current_cache_size(cache_values, cache_timeouts) > mm.limit
    /\ mm.this_step <= MaxThisStep
    /\ LET r == clear_ttl_keys(cache_values, cache_timeouts, <<"int", mm.this_step>>) IN
         /\ cache_values' = r.values
         /\ cache_timeouts' = r.timeouts
         /\ mm' = IF r.raised THEN MMIdle
                  ELSE [mm EXCEPT !.this_step = mm.this_step + mm.step]
         /\ op' = [NoOp EXCEPT !.name = "mm_sweep", !.arg = mm.this_step,
                               !.frame = mm,
                               !.result = IF r.raised THEN "TypeError" ELSE ""]
    /\ Snapshot
    /\ UNCHANGED now
    /\ UNCHANGED conn

\* Lines 171 and 179: the loop tests fail and manage_memory returns.
MMReturn ==
    /\ mm.pc \in {"outer", "inner"}
    /\ current_cache_size(cache_values, cache_timeouts) <= mm.limit
    /\ mm' = MMIdle
    /\ op' = [NoOp EXCEPT !.name = "mm_return", !.arg = mm.limit, !.frame = mm]
    /\ Snapshot
    /\ UNCHANGED <<cache_values, cache_timeouts, now>>
    /\ UNCHANGED conn

Init ==
    /\ cache_values = EmptyDict
    /\ cache_timeouts = EmptyDict
    /\ now = 0
    /\ op = NoOp
    /\ pre_values = EmptyDict
    /\ pre_timeouts = EmptyDict
    /\ mm = MMIdle
    /\ conn = NoConn

Next ==
    \/ Tick
    \/ \E key \in Keys, value \in Values, ttl \in TtlArgs : SetKey(key, value, ttl)
    \/ \E key \in Keys : Get(key)
    \/ \E chunk_size \in Chunks : ClearPerm(chunk_size)
    \/ \E future \in Futures : ClearTtl(future)
    \/ \E chunk_size \in Chunks, step_seconds \in StepSeconds, limit \in Limits :
          MMStart(chunk_size, step_seconds, limit)
    \/ MMPass
    \/ MMSweep
    \/ MMReturn

Spec == Init /\ [][Next]_vars

\* The dicts are module globals that a caller can fill directly, as the tests
\* do: every pair of dicts over Keys, the two not necessarily in step.
Descriptors(t) ==
    {<<"perm", c>> : c \in 0..t} \cup {<<"ttl", e>> : e \in 0..(MaxTime + MaxTtl)}

Dicts(range) == UNION {[ks -> range] : ks \in SUBSET Keys}

InitAny ==
    /\ now \in Times
    /\ cache_values \in Dicts(Values)
    /\ cache_timeouts \in Dicts(Descriptors(now))
    /\ op = NoOp
    /\ pre_values = cache_values
    /\ pre_timeouts = cache_timeouts
    /\ mm = MMIdle
    /\ conn = NoConn

\* The calls the tests make on such dicts.
NextAny ==
    \/ Tick
    \/ \E key \in Keys, value \in Values, ttl \in TtlArgs : SetKey(key, value, ttl)
    \/ \E key \in Keys : Get(key)
    \/ \E chunk_size \in Chunks : ClearPerm(chunk_size)
    \/ \E future \in Futures : ClearTtl(future)

SpecAny == InitAny /\ [][NextAny]_vars

\* The command lines: a verb, a key and value tokens, any of them possibly
\* empty (two spaces in a row), joined with single spaces, with or without a
\* leading space.
VerbTokens ==
    {<<"S", "E", "T">>, <<"S", "e", "t">>, <<"G", "E", "T">>, <<"g", "E", "t">>,
     <<"D", "E", "L">>, <<>>}

KeyTokens == {<<"k">>, <<>>}

ValueTokens ==
    {<<"a">>, <<>>, <<Quote>>,
     <<"T", "t", "l", "=", "1", "0">>,
     <<"T", "T", "L", "=">>, <<"T", "T", "L", "=", "-", "1">>}

TokenLists ==
    UNION {{<<v>> \o rest : v \in VerbTokens, rest \in
              {r \in [1..n -> KeyTokens \cup ValueTokens] :
                 /\ n >= 1 => r[1] \in KeyTokens
                 /\ \A i \in 2..n : r[i] \in ValueTokens}} :
           n \in 0..(MaxTokens - 1)}

Lines == {pad \o join(list) : pad \in {<<>>, <<" ">>}, list \in TokenLists}

\* parse_command(data) is called at time now.
Command(data) ==
    /\ mm.pc = "idle"
    /\ \E r \in {parse_command(cache_values, cache_timeouts, data, now)} :
         /\ cache_values' = r.values
         /\ cache_timeouts' = r.timeouts
         /\ op' = [name |-> "parse_command", data |-> data, kind |-> r.kind,
                   response |-> r.response, error |-> r.error,
                   received |-> r.received]
    /\ Snapshot
    /\ UNCHANGED <<now, mm>>
    /\ UNCHANGED conn

\* The first call made on the stores.
ParseCommand(data) ==
    /\ op.name = "init"
    /\ Command(data)

\* The stores parse_command is applied to: each key absent, permanent or
\* with a time to live, the two dicts in step.
ParseDescriptors == {<<"perm", 0>>, <<"ttl", 1>>}

InitParse ==
    /\ now \in Times
    /\ \E present \in SUBSET KeyTokens, d \in [KeyTokens -> ParseDescriptors] :
         /\ cache_values = [k \in present |-> <<"a">>]
         /\ cache_timeouts = [k \in present |-> d[k]]
    /\ op = NoOp
    /\ pre_values = cache_values
    /\ pre_timeouts = cache_timeouts
    /\ mm = MMIdle
    /\ conn = NoConn

\* One call per behaviour: the lines still to choose from.
Callable == IF op.name = "init" THEN Lines ELSE {}

NextParse == \E data \in Callable : ParseCommand(data)

SpecParse == InitParse /\ [][NextParse]_vars

\* A session: parse_command called line after line on stores that start
\* empty, the caller going on after an exception, while time passes.
SessionLines ==
    {<<"S", "E", "T", " ", "k", " ", "a">>,
     <<"S", "E", "T", " ", " ", "k", " ", "a">>,
     <<"S", "E", "T", " ", "k", " ", " ", "a">>,
     <<"S", "E", "T", " ", "k", " ", "N", "O", "T", " ", "F", "O", "U", "N", "D">>,
     <<"S", "E", "T", " ", "k", " ", "a", " ", "T", "T", "L", "=", "1">>,
     <<"S", "E", "T", " ", "k", " ", "T", "T", "L", "=", "1">>,
     <<"G", "E", "T", " ", "k">>,
     <<"G", "E", "T", " ", " ", "k">>,
     <<"G", "E", "T">>,
     <<"D", "E", "L", " ", "k">>}

NextSession ==
    \/ Tick
    \/ \E data \in SessionLines : Command(data)

SpecSession == Init /\ [][NextSession]_vars

(* ------------------------------ run_ncache ---------------------------- *)

\* What conn.recv returns: '' when the peer has closed, else a line.
ServeLines ==
    {<<"S", "E", "T", " ", "k", " ", "a">>,
     <<"S", "E", "T", " ", "j", " ", "a", " ", "T", "T", "L", "=", "1">>,
     <<"S", "E", "T", " ", "k", " ", "T", "T", "L", "=", "1">>,
     <<"G", "E", "T", " ", "k">>,
     <<"G", "E", "T", " ", "j">>,
     <<"G", "E", "T">>,
     <<"D", "E", "L", " ", "k">>}

\* int(max_memory*memory_tolerance): room for no key, for one, for two.
ServeLimits == {EmptySize, EmptySize + 2, EmptySize + 4}

\* Lines 213-218: the socket listens; clear_perm_chunk is the default 1.
Listening(limit) ==
    [NoConn EXCEPT !.state = "listening", !.chunk = 1, !.step = 1, !.limit = limit]

\* Line 214: accept.
Accept ==
    /\ conn.state = "listening"
    /\ conn' = [conn EXCEPT !.state = "connected"]
    /\ op' = [NoOp EXCEPT !.name = "accept"]
    /\ Snapshot
    /\ UNCHANGED <<cache_values, cache_timeouts, now, mm>>

\* The loop blocks in recv while time passes.
ServeTick ==
    /\ conn.state = "connected"
    /\ conn.pc = "recv"
    /\ Tick

\* Lines 221-223 and 236: an empty read leaves the loop and closes.
RecvEmpty ==
    /\ conn.state = "connected"
    /\ conn.pc = "recv"
    /\ conn' = [conn EXCEPT !.state = "closed"]
    /\ op' = [NoOp EXCEPT !.name = "recv_empty"]
    /\ Snapshot
    /\ UNCHANGED <<cache_values, cache_timeouts, now, mm>>

\* Mutant: the command is parsed without the call of manage_memory.
StartFrame_Skipped(c, size) == MMIdle

\* Lines 167-168: the frame manage_memory starts with, called as line 226
\* calls it.
StartFrame(c, size) ==
    [pc |-> "outer", chunk |-> c.chunk, step |-> c.step, limit |-> c.limit,
     old |-> size, this_step |-> c.step]

\* Lines 221-226: a non-empty read enters manage_memory.
Recv(data) ==
    /\ conn.state = "connected"
    /\ conn.pc = "recv"
    /\ conn.reads < MaxReads
    /\ conn' = [conn EXCEPT !.pc = "manage", !.data = data,
                            !.reads = conn.reads + 1,
                            !.after_error = conn.failed]
    /\ mm' = StartFrame(conn, current_cache_size(cache_values, cache_timeouts))
    /\ op' = [NoOp EXCEPT !.name = "mm_start", !.arg = conn.limit]
    /\ Snapshot
    /\ UNCHANGED <<cache_values, cache_timeouts, now>>

\* The TypeError of manage_memory is no ValueError: it leaves run_ncache.
ManageRaised ==
    /\ conn.state = "connected"
    /\ conn.pc = "manage"
    /\ mm.pc = "idle"
    /\ op.result = "TypeError"
    /\ conn' = [conn EXCEPT !.state = "crashed", !.raised = "TypeError"]
    /\ op' = [NoOp EXCEPT !.name = "raise"]
    /\ Snapshot
    /\ UNCHANGED <<cache_values, cache_timeouts, now, mm>>

\* Mutant: a ValueError ends the loop as an empty read does.
Respond_CloseOnError(c, r) ==
    IF r.kind = "return"
    THEN [c EXCEPT !.pc = "recv", !.sent = c.sent + 1, !.failed = FALSE,
                   !.response = r.response]
    ELSE IF r.kind = "ValueError"
    THEN [c EXCEPT !.state = "closed", !.pc = "recv", !.sent = c.sent + 1,
                   !.failed = TRUE, !.response = ErrorText(r)]
    ELSE [c EXCEPT !.state = "crashed", !.raised = r.kind]

\* Lines 229-235: the response is sent; a ValueError is caught and its text
\* sent; any other exception leaves run_ncache.
Respond(c, r) ==
    IF r.kind = "return"
    THEN [c EXCEPT !.pc = "recv", !.sent = c.sent + 1, !.failed = FALSE,
                   !.response = r.response]
    ELSE IF r.kind = "ValueError"
    THEN [c EXCEPT !.pc = "recv", !.sent = c.sent + 1, !.failed = TRUE,
                   !.response = ErrorText(r)]
    ELSE [c EXCEPT !.state = "crashed", !.raised = r.kind]

\* Lines 229-235: manage_memory has returned; the data is parsed and
\* answered.
ServeParse ==
    /\ conn.state = "connected"
    /\ conn.pc = "manage"
    /\ mm.pc = "idle"
    /\ op.result # "TypeError"
    /\ \E r \in {parse_command(cache_values, cache_timeouts, conn.data, now)} :
         /\ cache_values' = r.values
         /\ cache_timeouts' = r.timeouts
         /\ conn' = Respond(conn, r)
         /\ op' = [name |-> "parse_command", data |-> conn.data, kind |-> r.kind,
                   response |-> r.response, error |-> r.error,
                   received |-> r.received]
    /\ Snapshot
    /\ UNCHANGED <<now, mm>>

\* Lines 213-218: the process starts with empty stores.
InitServe ==
    /\ cache_values = EmptyDict
    /\ cache_timeouts = EmptyDict
    /\ now = 0
    /\ op = NoOp
    /\ pre_values = EmptyDict
    /\ pre_timeouts = EmptyDict
    /\ mm = MMIdle
    /\ \E limit \in ServeLimits : conn = Listening(limit)

NextServe ==
    \/ Accept
    \/ ServeTick
    \/ RecvEmpty
    \/ \E data \in ServeLines : Recv(data)
    \/ MMPass
    \/ MMSweep
    \/ MMReturn
    \/ ManageRaised
    \/ ServeParse

SpecServe == InitServe /\ [][NextServe]_vars

(* ------------------------------ claims -------------------------------- *)

\* The last call was a get of a key.
IsGet == op.name = "get"

\* Dict d is dict e with the keys of ks left out of account.
SameExcept(d, e, ks) ==
    /\ (DOMAIN d) \ ks = (DOMAIN e) \ ks
    /\ \A x \in (DOMAIN d) \ ks : d[x] = e[x]

\* The entry of key before the last call was alive at time t.
WasAlive(key, t) ==
    /\ key \in DOMAIN pre_values
    /\ key \in DOMAIN pre_timeouts
    /\ (pre_timeouts[key][1] = "ttl" => pre_timeouts[key][2] > t)

\* C1 (Invariant I1): from two empty stores, after any sequence of sets, gets,
\* _clear_perm_keys, _clear_ttl_keys and manage_memory steps, cache_values and
\* cache_timeouts hold the same set of keys.
C1_SameKeys == DOMAIN cache_values = DOMAIN cache_timeouts

\* A sweep has removed a ttl key and another key is still stored.
C1_Witness ==
    /\ op.name = "clear_ttl"
    /\ DOMAIN pre_timeouts # DOMAIN cache_timeouts
    /\ DOMAIN cache_values # {}

\* C2 (self-healing read): a get of a key that is in exactly one of the two
\* stores returns NOT FOUND, leaves the key in neither store, and leaves the
\* entries of every other key as they were.
C2_SelfHealingRead ==
    (IsGet /\ ((op.key \in DOMAIN pre_values) # (op.key \in DOMAIN pre_timeouts)))
      => /\ op.result = "NOT FOUND"
         /\ op.key \notin DOMAIN cache_values
         /\ op.key \notin DOMAIN cache_timeouts
         /\ SameExcept(cache_values, pre_values, {op.key})
         /\ SameExcept(cache_timeouts, pre_timeouts, {op.key})

\* A get found a permanent descriptor without a value, while another key was
\* stored with a value and no descriptor.
C2_Witness ==
    /\ IsGet
    /\ op.key \in DOMAIN pre_timeouts
    /\ op.key \notin DOMAIN pre_values
    /\ pre_timeouts[op.key][1] = "perm"
    /\ \E x \in DOMAIN cache_values : x \notin DOMAIN cache_timeouts

\* C3: a get of an alive entry (permanent, or ttl with expires_at > now)
\* returns the stored value and changes neither store, and so does every
\* further get of the key at a time at which the entry is still alive.
C3_GetAliveIsPure ==
    (IsGet /\ WasAlive(op.key, now))
      => /\ op.result = pre_values[op.key]
         /\ cache_values = pre_values
         /\ cache_timeouts = pre_timeouts
         /\ \A t \in now..MaxTime :
              WasAlive(op.key, t) =>
                LET again == get_or_timeout(cache_values, cache_timeouts, op.key, t) IN
                  /\ again.result = op.result
                  /\ again.values = cache_values
                  /\ again.timeouts = cache_timeouts

\* A get returned the value of a ttl entry set earlier and not yet expired,
\* next to a permanent entry.
C3_Witness ==
    /\ IsGet
    /\ now > 0
    /\ op.key \in DOMAIN cache_timeouts
    /\ cache_timeouts[op.key][1] = "ttl"
    /\ cache_timeouts[op.key][2] > now
    /\ op.result = cache_values[op.key]
    /\ PermKeys(cache_timeouts) # {}

\* C4: a get of a ttl entry whose expires_at is in the past returns NOT FOUND
\* and removes the key from both stores; a second get of the key, then or
\* later, returns NOT FOUND again and leaves the stores as the first left them.
C4_GetExpired ==
    /\ (IsGet /\ op.key \in DOMAIN pre_values /\ op.key \in DOMAIN pre_timeouts
              /\ pre_timeouts[op.key][1] = "ttl" /\ pre_timeouts[op.key][2] < now)
         => /\ op.result = "NOT FOUND"
            /\ op.key \notin DOMAIN cache_values
            /\ op.key \notin DOMAIN cache_timeouts
    /\ (IsGet /\ op.result = "NOT FOUND")
         => \A t \in now..MaxTime :
              LET again == get_or_timeout(cache_values, cache_timeouts, op.key, t) IN
                /\ again.result = "NOT FOUND"
                /\ again.values = cache_values
                /\ again.timeouts = cache_timeouts

\* A get has just removed an expired ttl entry.
C4_Witness ==
    /\ IsGet
    /\ op.key \in DOMAIN pre_values
    /\ op.key \in DOMAIN pre_timeouts
    /\ pre_timeouts[op.key][1] = "ttl"
    /\ pre_timeouts[op.key][2] < now
    /\ op.result = "NOT FOUND"

\* C5: a ttl entry is alive iff expires_at > now, strictly.  A get of a ttl
\* entry returns its value exactly when expires_at > now; an entry whose
\* expires_at is now or earlier is reported NOT FOUND by a get at any time from
\* now on; and a set with TTL=0 stores such an entry (expires_at = now).
C5_StrictExpiry ==
    /\ (IsGet /\ op.key \in DOMAIN pre_values /\ op.key \in DOMAIN pre_timeouts
              /\ pre_timeouts[op.key][1] = "ttl")
         => IF pre_timeouts[op.key][2] > now
            THEN op.result = pre_values[op.key] /\ op.key \in DOMAIN cache_values
            ELSE op.result = "NOT FOUND" /\ op.key \notin DOMAIN cache_values
    /\ \A k \in TtlKeys(cache_timeouts) :
         cache_timeouts[k][2] <= now =>
           \A t \in now..MaxTime :
             get_or_timeout(cache_values, cache_timeouts, k, t).result = "NOT FOUND"
    /\ (op.name = "set" /\ op.ttl = <<0>>)
         => /\ cache_timeouts[op.key] = <<"ttl", now>>
            /\ op.key \in TtlKeys(cache_timeouts)

\* A get at the very time a key's ttl entry expires (expires_at = now, as a
\* set with TTL=0 at time 0 leaves it) reported NOT FOUND.
C5_Witness ==
    /\ IsGet
    /\ now = 0
    /\ op.key \in DOMAIN pre_timeouts
    /\ pre_timeouts[op.key] = <<"ttl", now>>
    /\ op.key \in DOMAIN pre_values
    /\ op.result = "NOT FOUND"

\* C6: after put(k, v, ttl) the value of k is v and its descriptor is
\* <<"ttl", now + ttl>> when ttl is given and <<"perm", now>> otherwise,
\* whatever k held before; the entries of the other keys are unchanged.
C6_PutReplaces ==
    op.name = "set"
      => /\ op.key \in DOMAIN cache_values
         /\ op.key \in DOMAIN cache_timeouts
         /\ cache_values[op.key] = op.value
         /\ cache_timeouts[op.key] =
              IF Len(op.ttl) = 1 THEN <<"ttl", now + op.ttl[1]>> ELSE <<"perm", now>>
         /\ SameExcept(cache_values, pre_values, {op.key})
         /\ SameExcept(cache_timeouts, pre_timeouts, {op.key})
         /\ op.result = "SUCCESS"

\* A set without TTL has overwritten a ttl entry holding another value, next
\* to the entry of another key.
C6_Witness ==
    /\ op.name = "set"
    /\ op.ttl = <<>>
    /\ op.key \in DOMAIN pre_timeouts
    /\ pre_timeouts[op.key][1] = "ttl"
    /\ pre_values[op.key] # op.value
    /\ DOMAIN cache_values # {op.key}

\* The keys a call or loop iteration removed from cache_timeouts.
Removed == (DOMAIN pre_timeouts) \ (DOMAIN cache_timeouts)

\* The stores of test_clear_perm_keys at time 200 (k1 created 100 s ago, k2
\* 200 s ago, k3 10 s ago), and a ttl entry k4 next to them.
PermTestValues == [k \in {"k1", "k2", "k3", "k4"} |-> "some test data"]
PermTestTimeouts ==
    [k \in {"k1", "k2", "k3", "k4"} |->
       CASE k = "k1" -> <<"perm", 100>>
         [] k = "k2" -> <<"perm", 0>>
         [] k = "k3" -> <<"perm", 190>>
         [] OTHER -> <<"ttl", 150>>]

\* The stores one call of _clear_perm_keys(1) leaves when it can leave only one.
OnlyOutcome(values, timeouts) ==
    CHOOSE r \in clear_perm_keys(values, timeouts, 1) : TRUE

\* The test's three calls remove k2, then k1, then k3, and never k4.
C7_TestScenario ==
    LET s1 == clear_perm_keys(PermTestValues, PermTestTimeouts, 1)
        r1 == OnlyOutcome(PermTestValues, PermTestTimeouts)
        s2 == clear_perm_keys(r1.values, r1.timeouts, 1)
        r2 == OnlyOutcome(r1.values, r1.timeouts)
        s3 == clear_perm_keys(r2.values, r2.timeouts, 1)
        r3 == OnlyOutcome(r2.values, r2.timeouts)
    IN /\ Cardinality(s1) = 1 /\ Cardinality(s2) = 1 /\ Cardinality(s3) = 1
       /\ DOMAIN r1.timeouts = {"k1", "k3", "k4"} /\ DOMAIN r1.values = {"k1", "k3", "k4"}
       /\ DOMAIN r2.timeouts = {"k3", "k4"} /\ DOMAIN r2.values = {"k3", "k4"}
       /\ DOMAIN r3.timeouts = {"k4"} /\ DOMAIN r3.values = {"k4"}
       /\ r3.timeouts["k4"] = <<"ttl", 150>>

\* C7: _clear_perm_keys(chunk_size) removes exactly min(chunk_size, number of
\* permanent entries) permanent entries from both stores, every removed entry
\* was created no later than every permanent entry that remains, and every
\* other entry (the ttl entries among them) is unchanged.
C7_ClearPermOldestFirst ==
    /\ op.name = "clear_perm"
         => /\ Removed \subseteq PermKeys(pre_timeouts)
            /\ Cardinality(Removed) =
                 Min(op.arg, Cardinality(PermKeys(pre_timeouts)))
            /\ \A r \in Removed : \A k \in PermKeys(cache_timeouts) :
                 pre_timeouts[r][2] <= cache_timeouts[k][2]
            /\ SameExcept(cache_timeouts, pre_timeouts, Removed)
            /\ SameExcept(cache_values, pre_values, Removed)
            /\ DOMAIN cache_values = (DOMAIN pre_values) \ Removed
            /\ DOMAIN cache_timeouts = (DOMAIN pre_timeouts) \ Removed
    /\ C7_TestScenario

\* _clear_perm_keys(1) found two permanent entries of different age and
\* removed the older one only.
C7_Witness ==
    /\ op.name = "clear_perm"
    /\ op.arg = 1
    /\ Cardinality(PermKeys(pre_timeouts)) = 2
    /\ Cardinality(Removed) = 1
    /\ \E r \in Removed : \E k \in PermKeys(cache_timeouts) :
         pre_timeouts[r][2] < cache_timeouts[k][2]

\* The stores of test_clear_ttl_keys at time 0: k1 expires at +360, k2 at +640,
\* k3 at +720.
TtlTestValues == [k \in {"k1", "k2", "k3"} |-> "some test data"]
TtlTestTimeouts ==
    [k \in {"k1", "k2", "k3"} |->
       CASE k = "k1" -> <<"ttl", 360>>
         [] k = "k2" -> <<"ttl", 640>>
         [] OTHER -> <<"ttl", 720>>]

\* Horizons now+300, now+600, now+900 remove nothing, then k1, then k2 and k3.
C8_TestScenario ==
    LET r1 == clear_ttl_keys(TtlTestValues, TtlTestTimeouts, <<"datetime", 300>>)
        r2 == clear_ttl_keys(r1.values, r1.timeouts, <<"datetime", 600>>)
        r3 == clear_ttl_keys(r2.values, r2.timeouts, <<"datetime", 900>>)
    IN /\ r1.values = TtlTestValues /\ r1.timeouts = TtlTestTimeouts
       /\ DOMAIN r2.values = {"k2", "k3"} /\ DOMAIN r2.timeouts = {"k2", "k3"}
       /\ DOMAIN r3.values = {} /\ DOMAIN r3.timeouts = {}
       /\ ~r1.raised /\ ~r2.raised /\ ~r3.raised

\* C8: _clear_ttl_keys(horizon) removes from both stores exactly the ttl
\* entries with expires_at < horizon (an entry with expires_at = horizon
\* stays) and leaves every other entry unchanged.
C8_ClearTtlBeforeHorizon ==
    /\ op.name = "clear_ttl"
         => /\ Removed = {k \in DOMAIN pre_timeouts :
                            /\ pre_timeouts[k][1] = "ttl"
                            /\ pre_timeouts[k][2] < op.arg}
            /\ DOMAIN cache_values = (DOMAIN pre_values) \ Removed
            /\ DOMAIN cache_timeouts = (DOMAIN pre_timeouts) \ Removed
            /\ SameExcept(cache_timeouts, pre_timeouts, Removed)
            /\ SameExcept(cache_values, pre_values, Removed)
    /\ C8_TestScenario

\* A sweep removed a ttl entry and left one that expires exactly at the horizon.
C8_Witness ==
    /\ op.name = "clear_ttl"
    /\ Removed # {}
    /\ \E k \in TtlKeys(cache_timeouts) : cache_timeouts[k][2] = op.arg

\* C9: in the ttl-draining phase of manage_memory the k-th sweep, which the
\* code runs with this_step = k * step_seconds, completes and removes exactly
\* the ttl entries with expires_at < now + k * step_seconds.
C9_SweepHorizonIsNowPlusStep ==
    op.name = "mm_sweep"
      => /\ op.result # "TypeError"
         /\ Removed = {k \in DOMAIN pre_timeouts :
                         /\ pre_timeouts[k][1] = "ttl"
                         /\ pre_timeouts[k][2] < now + op.arg}

\* The arguments C10 is about.
C10_Args(frame) ==
    /\ frame.chunk >= 1
    /\ frame.step >= 1
    /\ EmptySize <= frame.limit

\* manage_memory stands at a loop test it can never leave: over the limit,
\* with a loop body that changes nothing the test reads.
Spinning ==
    /\ current_cache_size(cache_values, cache_timeouts) > mm.limit
    /\ \/ /\ mm.pc = "outer"
          /\ PermKeys(cache_timeouts) = {}
          /\ current_cache_size(cache_values, cache_timeouts) # mm.old
       \/ /\ mm.pc = "inner"
          /\ TtlKeys(cache_timeouts) = {}

\* C10: for chunk_size >= 1, step_seconds >= 1 and a limit no smaller than the
\* empty stores' size, manage_memory terminates with size <= limit from every
\* store: no sweep raises, no loop spins without effect, and a return finds
\* the size within the limit.
C10_TerminatesUnderBudget ==
    /\ (op.name = "mm_sweep" /\ C10_Args(op.frame)) => op.result # "TypeError"
    /\ (mm.pc # "idle" /\ C10_Args(mm)) => ~Spinning
    /\ (op.name = "mm_return" /\ C10_Args(op.frame))
         => current_cache_size(cache_values, cache_timeouts) <= op.frame.limit

\* The last step was an iteration of one of manage_memory's loops.
IsEviction == op.name \in {"mm_pass", "mm_sweep"}

\* C11: for chunk_size >= 1, no iteration of manage_memory removes a ttl entry
\* (expired or not) from stores that still hold a permanent entry.
C11_PermBeforeTtl ==
    (IsEviction /\ op.frame.chunk >= 1 /\ PermKeys(pre_timeouts) # {})
      => /\ Removed \cap TtlKeys(pre_timeouts) = {}
         /\ \A k \in TtlKeys(pre_timeouts) :
              /\ k \in DOMAIN cache_values
              /\ k \in DOMAIN cache_timeouts

\* A pass of manage_memory removed a permanent entry and left an expired ttl
\* entry stored.
C11_Witness ==
    /\ op.name = "mm_pass"
    /\ op.frame.chunk >= 1
    /\ Removed # {}
    /\ \E k \in TtlKeys(cache_timeouts) :
         /\ cache_timeouts[k][2] < now
         /\ k \in TtlKeys(pre_timeouts)

\* The arguments C12 is about.
C12_Args(frame) ==
    /\ frame.chunk >= 1
    /\ frame.step >= 1
    /\ frame.limit < EmptySize

\* C12: with a limit below the empty stores' size manage_memory never returns
\* and has no error outcome: no sweep raises, and once its loops change
\* nothing any more both stores are empty.
C12_SpinsOnEmptyStores ==
    /\ op.name = "mm_return" => ~C12_Args(op.frame)
    /\ (op.name = "mm_sweep" /\ C12_Args(op.frame)) => op.result # "TypeError"
    /\ (mm.pc # "idle" /\ C12_Args(mm) /\ Spinning)
         => /\ DOMAIN cache_values = {}
            /\ DOMAIN cache_timeouts = {}

(* ------------------------- claims on parse_command -------------------- *)

\* The tokens of a line: trimmed, then cut at every single space.
TokensOf(data) == split(rstrip(lstrip(data)))

\* The last step parsed a line whose verb is verb, in some letter case.
Parsed(verb) ==
    /\ op.name = "parse_command"
    /\ lower(TokensOf(op.data)[1]) = verb

\* The digits-only TTL token: t, t, l in either case, '=', then digits.
TtlShaped(token) ==
    /\ Len(token) >= 5
    /\ token[1] \in {"t", "T"}
    /\ token[2] \in {"t", "T"}
    /\ token[3] \in {"l", "L"}
    /\ token[4] = "="
    /\ \A i \in 5..Len(token) : token[i] \in Range(Digits)

\* One leading and one trailing character dropped iff both ends are a quote.
QuoteStripped(raw) ==
    IF raw # <<>> /\ raw[1] = Quote /\ raw[Len(raw)] = Quote
    THEN IF Len(raw) = 1 THEN <<>> ELSE [i \in 1..(Len(raw) - 2) |-> raw[i + 1]]
    ELSE raw

\* The line 'GET <key>'.
GetLine(key) == <<"G", "E", "T", " ">> \o key

\* The last step was a SET with more than two tokens and no TTL token at
\* the end.
SetWithoutTtl ==
    /\ Parsed(<<"s", "e", "t">>)
    /\ Len(TokensOf(op.data)) > 2
    /\ ~TtlShaped(TokensOf(op.data)[Len(TokensOf(op.data))])

SetWithValue ==
    /\ Parsed(<<"s", "e", "t">>)
    /\ Len(TokensOf(op.data)) > 2

\* The key of the line is stored with this value and this descriptor.
Committed(value, descriptor) ==
    LET key == TokensOf(op.data)[2] IN
    /\ op.kind = "return"
    /\ key \in DOMAIN cache_values
    /\ key \in DOMAIN cache_timeouts
    /\ cache_values[key] = value
    /\ cache_timeouts[key] = descriptor

\* C14: in a SET line, iff the final token is TTL= (any case) and digits,
\* the token is consumed, the value is tokens 2 to second-to-last rejoined
\* and quote-stripped, and the entry has a time to live ending at now plus
\* that number; otherwise the token is part of the value and the entry is
\* permanent.
C14_TtlSuffix ==
    SetWithValue =>
      LET tokens == TokensOf(op.data)
          last == tokens[Len(tokens)]
      IN IF TtlShaped(last)
         THEN Committed(QuoteStripped(join(SubSeq(tokens, 3, Len(tokens) - 1))),
                        <<"ttl", now + int(SubSeq(last, 5, Len(last)))>>)
         ELSE Committed(QuoteStripped(join(SubSeq(tokens, 3, Len(tokens)))),
                        <<"perm", now>>)

\* The three messages parse_command raises ValueError with.
WrongArgCount == {"Wrong number of args for GET", "Wrong number of args for SET"}
UnknownCommand == {"Unkown command. Not GET or SET"}

\* C15: every SET line with more than two tokens commits an entry for its
\* key and yields SUCCESS, and the only failures of parse_command on any
\* line are WrongArgCount and UnknownCommand, each a ValueError whose text
\* begins with 'ERROR: '.
C15_OnlyTwoFailures ==
    op.name = "parse_command" =>
      /\ SetWithValue =>
           /\ op.kind = "return"
           /\ op.response = SUCCESS
           /\ TokensOf(op.data)[2] \in DOMAIN cache_values
           /\ TokensOf(op.data)[2] \in DOMAIN cache_timeouts
      /\ op.kind # "return" =>
           /\ op.kind = "ValueError"
           /\ op.error \in WrongArgCount \cup UnknownCommand
           /\ ErrorText(op).prefix = "ERROR: "

\* The last parse raised ValueError with this message, formatted with the
\* number of tokens where the message has one, and left the stores alone.
Failed(messages, received) ==
    /\ op.kind = "ValueError"
    /\ op.error \in messages
    /\ op.received = received
    /\ cache_values = pre_values
    /\ cache_timeouts = pre_timeouts

\* C16: a GET line whose token count is not exactly 2 and a SET line with 2
\* tokens or fewer fail with WrongArgCount and return nothing; a GET with
\* exactly 2 tokens never fails and returns the value or NOT FOUND.
C16_WrongArgCount ==
    LET tokens == TokensOf(op.data) IN
    /\ (Parsed(<<"g", "e", "t">>) /\ Len(tokens) # 2)
         => Failed({"Wrong number of args for GET"}, Len(tokens))
    /\ (Parsed(<<"s", "e", "t">>) /\ Len(tokens) <= 2)
         => Failed({"Wrong number of args for SET"}, Len(tokens))
    /\ (Parsed(<<"g", "e", "t">>) /\ Len(tokens) = 2)
         => /\ op.kind = "return"
            /\ op.response = IF WasAlive(tokens[2], now)
                              THEN pre_values[tokens[2]] ELSE NOT_FOUND

\* A GET of a stored key with one token too many was refused.
C16_Witness ==
    /\ Parsed(<<"g", "e", "t">>)
    /\ Len(TokensOf(op.data)) = 3
    /\ WasAlive(TokensOf(op.data)[2], now)
    /\ op.kind = "ValueError"

\* get and set in every letter case.
GetForms == {<<g, e, t>> : g \in {"g", "G"}, e \in {"e", "E"}, t \in {"t", "T"}}
SetForms == {<<s, e, t>> : s \in {"s", "S"}, e \in {"e", "E"}, t \in {"t", "T"}}

\* The trimmed line with its first three characters replaced by verb.
WithVerb(data, verb) ==
    verb \o SubSeq(rstrip(lstrip(data)), 4, Len(rstrip(lstrip(data))))

\* The last parse did to the stores before it what parsing data does.
SameAsParsing(data) ==
    LET r == parse_command(pre_values, pre_timeouts, data, now) IN
    /\ op.kind = r.kind
    /\ op.response = r.response
    /\ op.error = r.error
    /\ op.received = r.received
    /\ cache_values = r.values
    /\ cache_timeouts = r.timeouts

\* C17: the verb is matched in any letter case, a line behaving as the same
\* line with GET or SET in capitals; a line whose first token is neither,
\* the empty and the all-space line included, fails with UnknownCommand.
C17_VerbAnyCase ==
    op.name = "parse_command" =>
      LET verb == TokensOf(op.data)[1] IN
      /\ verb \in GetForms =>
           /\ SameAsParsing(WithVerb(op.data, <<"G", "E", "T">>))
           /\ op.error \notin UnknownCommand
      /\ verb \in SetForms =>
           /\ SameAsParsing(WithVerb(op.data, <<"S", "E", "T">>))
           /\ op.error \notin UnknownCommand
      /\ verb \notin GetForms \cup SetForms => Failed(UnknownCommand, 0)

\* The line 'gEt k' was parsed and answered with the value of k.
C17_Witness ==
    /\ op.name = "parse_command"
    /\ TokensOf(op.data) = <<<<"g", "E", "t">>, <<"k">>>>
    /\ op.kind = "return"
    /\ op.response = <<"a">>

(* --------------------------- claims on run_ncache --------------------- *)

\* The handler is in the loop, blocked in recv.
AwaitingRead == conn.state = "connected" /\ conn.pc = "recv"

\* C18: in the serving loop a parse failure does not close the connection:
\* the error text is sent as the response to that read, the handler stays
\* connected awaiting the next read, and the read after it is parsed and
\* answered as parse_command answers its line.
C18_ErrorKeepsConnection ==
    /\ (op.name = "parse_command" /\ op.kind = "ValueError")
         => /\ AwaitingRead
            /\ conn.failed
            /\ conn.response = ErrorText(op)
            /\ conn.sent = conn.reads
    /\ (op.name = "parse_command" /\ conn.after_error)
         => /\ op.data = conn.data
            /\ SameAsParsing(conn.data)
            /\ op.kind = "return" =>
                 /\ AwaitingRead
                 /\ ~conn.failed
                 /\ conn.response = op.response
                 /\ conn.sent = conn.reads

\* After 'GET' was answered with an error text, 'SET k a' was read and
\* answered SUCCESS.
C18_Witness ==
    /\ op.name = "parse_command"
    /\ conn.after_error
    /\ AwaitingRead
    /\ op.data = <<"S", "E", "T", " ", "k", " ", "a">>
    /\ conn.response = SUCCESS
    /\ conn.sent = 2

\* C19: the handler leaves the loop only by an empty read, after which the
\* connection is closed; no line and no store state makes it stop or fail
\* otherwise, an exception of the eviction pass apart; every non-empty read
\* is answered with exactly one response.
C19_OnlyEmptyReadEnds ==
    /\ conn.state = "crashed" => conn.raised = "TypeError"
    /\ conn.state = "closed" => op.name = "recv_empty"
    /\ (AwaitingRead \/ conn.state = "closed") => conn.sent = conn.reads
    /\ (conn.state = "connected" /\ conn.pc = "manage")
         => conn.sent = conn.reads - 1

\* C20: for every non-empty read, GET and malformed lines included, the
\* command is parsed only once manage_memory has returned, so the size of
\* the stores is at most the limit at the moment of parsing; after a SET it
\* may exceed the limit until the next read is processed.
C20_EvictBeforeParse ==
    /\ (conn.state = "connected" /\ op.name = "parse_command")
         => current_cache_size(pre_values, pre_timeouts) <= conn.limit
    /\ (conn.state = "connected" /\ conn.pc = "manage" /\ mm.pc # "idle")
         => /\ op.name # "parse_command"
            /\ conn.sent = conn.reads - 1

\* A SET was answered and left the stores over the limit.
C20_Witness ==
    /\ AwaitingRead
    /\ Parsed(<<"s", "e", "t">>)
    /\ op.kind = "return"
    /\ current_cache_size(pre_values, pre_timeouts) <= conn.limit
    /\ current_cache_size(cache_values, cache_timeouts) > conn.limit

(* ------------------------ claims on the whole store ------------------- *)

\* The last step left both stores as they were.
StoresUntouched ==
    /\ cache_values = pre_values
    /\ cache_timeouts = pre_timeouts

\* The last step added, removed or changed the entry of key.
Touched(key) ==
    \/ (key \in DOMAIN cache_values) # (key \in DOMAIN pre_values)
    \/ (key \in DOMAIN cache_timeouts) # (key \in DOMAIN pre_timeouts)
    \/ /\ key \in DOMAIN cache_values \cap DOMAIN pre_values
       /\ cache_values[key] # pre_values[key]
    \/ /\ key \in DOMAIN cache_timeouts \cap DOMAIN pre_timeouts
       /\ cache_timeouts[key] # pre_timeouts[key]

\* C21: manage_memory entered with a size within the limit leaves both
\* stores unchanged up to its return; the passage of time alone changes
\* neither store; an entry, expired or not, changes only by a get or a set
\* of its key or by an eviction.
C21_LazyExpiry ==
    /\ (mm.pc # "idle" /\ mm.old <= mm.limit)
         => /\ op.name \in {"mm_start", "tick"}
            /\ StoresUntouched
    /\ (op.name = "mm_return" /\ op.frame.old <= op.frame.limit) => StoresUntouched
    /\ op.name = "tick" => StoresUntouched
    /\ \A key \in Keys :
         Touched(key) =>
           \/ op.name \in {"get", "set"} /\ op.key = key
           \/ op.name \in {"clear_perm", "clear_ttl", "mm_pass", "mm_sweep"}

\* manage_memory returned under the limit with an expired entry still in
\* both stores.
C21_Witness ==
    /\ op.name = "mm_return"
    /\ op.frame.old <= op.frame.limit
    /\ \E key \in TtlKeys(cache_timeouts) :
         /\ cache_timeouts[key][2] < now
         /\ key \in DOMAIN cache_values

\* C22: after any sequence of command lines processed by parse_command from
\* empty stores, lines with consecutive spaces included, no key in either
\* store is empty or contains a space.
C22_KeysWellFormed ==
    \A key \in DOMAIN cache_values \cup DOMAIN cache_timeouts :
      /\ key # <<>>
      /\ \A i \in 1..Len(key) : key[i] # " "

\* C23: a command that fails in parse_command with WrongArgCount or
\* UnknownCommand leaves both stores exactly as they were before the call.
C23_RejectedLineChangesNothing ==
    (op.name = "parse_command" /\ op.kind = "ValueError")
      => /\ op.error \in WrongArgCount \cup UnknownCommand
         /\ cache_values = pre_values
         /\ cache_timeouts = pre_timeouts

\* 'GET k a' was refused while the entry of k had expired, and the entry is
\* still in both stores.
C23_Witness ==
    /\ Parsed(<<"g", "e", "t">>)
    /\ op.kind = "ValueError"
    /\ Len(TokensOf(op.data)) = 3
    /\ TokensOf(op.data)[2] = <<"k">>
    /\ <<"k">> \in DOMAIN cache_values \cap DOMAIN cache_timeouts
    /\ cache_timeouts[<<"k">>][1] = "ttl"
    /\ cache_timeouts[<<"k">>][2] < now

\* C24: whenever a well-formed GET k returns the literal NOT FOUND, key k
\* is in neither store after the command, whatever SET commands came
\* before, a SET of the value 'NOT FOUND' among them.
C24_NotFoundMeansAbsent ==
    (/\ Parsed(<<"g", "e", "t">>)
     /\ Len(TokensOf(op.data)) = 2
     /\ op.kind = "return"
     /\ op.response = NOT_FOUND)
      => /\ TokensOf(op.data)[2] \notin DOMAIN cache_values
         /\ TokensOf(op.data)[2] \notin DOMAIN cache_timeouts

\* C25: manage_memory evicts permanent entries minimally up to one chunk:
\* every pass, the last one before the return included, starts over the
\* limit and removes the chunk of the oldest permanent entries (all of them
\* when fewer than a chunk are left) and nothing else, and the call returns
\* only with the size within the limit.
C25_MinimalPermEviction ==
    /\ op.name = "mm_pass" =>
         /\ current_cache_size(pre_values, pre_timeouts) > op.frame.limit
         /\ Removed \subseteq PermKeys(pre_timeouts)
         /\ Cardinality(Removed)
              = Min(op.frame.chunk, Cardinality(PermKeys(pre_timeouts)))
         /\ \A gone \in Removed, kept \in PermKeys(pre_timeouts) \ Removed :
              pre_timeouts[gone][2] <= pre_timeouts[kept][2]
         /\ cache_values = PopAll(pre_values, Removed)
         /\ cache_timeouts = PopAll(pre_timeouts, Removed)
    /\ op.name = "mm_return" =>
         current_cache_size(cache_values, cache_timeouts) <= op.frame.limit

\* A pass with chunk_size 1 brought the size within the limit by removing
\* the older of two permanent entries and kept the younger.
C25_Witness ==
    /\ op.name = "mm_pass"
    /\ op.frame.chunk = 1
    /\ Cardinality(Removed) = 1
    /\ PermKeys(cache_timeouts) # {}
    /\ current_cache_size(cache_values, cache_timeouts) <= op.frame.limit
    /\ \A gone \in Removed, kept \in PermKeys(cache_timeouts) :
         pre_timeouts[gone][2] < pre_timeouts[kept][2]

====
